---- MODULE Spec2Model ----
(***************************************************************************)
(* Model of modulos/utils.py: criar_mapa_calor, the heat-map aggregator    *)
(* and renderer of the public-safety dashboard.                            *)
(*                                                                         *)
(* A DataFrame is a record [columns, rows]; a row is a function from the   *)
(* column names to values.  Municipality names are sequences of one-letter *)
(* strings so that str.upper() and str.strip() are computed, not assumed.  *)
(* Coordinates are integers in units of 1e-4 degree.  Python floats are    *)
(* modelled where their rounding decides a comparison (the tier            *)
(* thresholds max_vitimas * 0.7 / 0.4 / 0.2, IEEE-754 binary64, round to   *)
(* nearest even); the radius is kept as an exact fraction num/den.         *)
(***************************************************************************)
EXTENDS Integers, Sequences, FiniteSets, TLC

VARIABLES df, ordem_empates, args, chamadas, mapa, mapa_anterior,
          df_mapa_agg, max_vitimas,
          filtros, df_filtrado, etapa,
          sessoes, base_selecionada, pc, local, origem, tela, cache,
          execucoes, evento,
          fluxo, ranking

vars_mapa == <<ordem_empates, args, chamadas, mapa, mapa_anterior,
               df_mapa_agg, max_vitimas>>

vars_filtros == <<filtros, df_filtrado, etapa>>

vars_app == <<sessoes, base_selecionada, pc, local, origem, tela, cache,
              execucoes, evento>>

vars_pagina == <<fluxo, ranking>>

vars == <<df, vars_mapa, vars_filtros, vars_app, vars_pagina>>

(* ----------------------------- bounds ---------------------------------- *)
MaxRegistros == 2
MaxTopN == 3
MaxAlterados == 1

(* An optional argument is <<>> (None) or <<x>>. *)
None == <<>>

(* ----------------------------- inputs ---------------------------------- *)
EXU == <<"E", "X", "U">>
exu_ == <<" ", "e", "x", "u">>
OZ == <<"O", "Z">>

Municipios == {EXU, exu_, OZ}
Totais == {0, 1}
Datas == {<<2023, 2>>, <<2024, 1>>}
Anos == {None, <<2024>>}
Meses == {None, <<1>>}
Esquemas == {S \cup {"MUNICIPIO", "TOTAL"} : S \in SUBSET {"ANO", "MES"}}

Linhas(cols) ==
    {[c \in cols |-> CASE c = "MUNICIPIO" -> m
                       [] c = "TOTAL" -> t
                       [] c = "ANO" -> d[1]
                       [] c = "MES" -> d[2]] :
        m \in Municipios, t \in Totais, d \in Datas}

DataFrames ==
    UNION {{[columns |-> cols, rows |-> r] :
              r \in UNION {[1..n -> Linhas(cols)] : n \in 0..MaxRegistros}} :
           cols \in Esquemas}

(* Frames with both date columns whose rows match the year filter only,    *)
(* the month filter only, or both                                          *)
DatasCruzadas == {<<2023, 1>>, <<2024, 1>>, <<2024, 2>>}

FramesCruzados ==
    {[columns |-> {"MUNICIPIO", "TOTAL", "ANO", "MES"}, rows |-> r] :
        r \in UNION {[1..n -> {[MUNICIPIO |-> m, TOTAL |-> t,
                                 ANO |-> d[1], MES |-> d[2]] :
                                   m \in Municipios, t \in Totais,
                                   d \in DatasCruzadas}] :
                        n \in 0..MaxRegistros}}

(* Frames that already hold one row per municipality, with totals that     *)
(* land on and around the tier boundaries of a maximum of 90               *)
TotaisAgregados == {0, 18, 27, 36, 45, 63, 90}

FramesAgregados ==
    {[columns |-> {"MUNICIPIO", "TOTAL"}, rows |-> r] :
        r \in {x \in UNION {[1..n -> {[MUNICIPIO |-> m, TOTAL |-> t] :
                                         m \in Municipios,
                                         t \in TotaisAgregados}] :
                             n \in 0..Cardinality(Municipios)} :
                  \A i, j \in DOMAIN x :
                      i # j => x[i].MUNICIPIO # x[j].MUNICIPIO}}

(* -------------------------- coordinate table --------------------------- *)
COORDENADAS_MUNICIPIOS ==
    (EXU :> [lat |-> -75119, lon |-> -397242])

(* ----------------------------- strings --------------------------------- *)
ord(c) ==
    CASE c = " " -> 32
      [] c = "E" -> 69 [] c = "O" -> 79 [] c = "U" -> 85
      [] c = "X" -> 88 [] c = "Z" -> 90
      [] c = "e" -> 101 [] c = "u" -> 117 [] c = "x" -> 120

upper_char(c) ==
    CASE c = "e" -> "E" [] c = "u" -> "U" [] c = "x" -> "X"
      [] OTHER -> c

upper(s) == [i \in 1..Len(s) |-> upper_char(s[i])]

RECURSIVE lstrip(_)
lstrip(s) ==
    IF s # <<>> /\ Head(s) = " " THEN lstrip(Tail(s)) ELSE s

RECURSIVE rstrip(_)
rstrip(s) ==
    IF s # <<>> /\ s[Len(s)] = " " THEN rstrip(SubSeq(s, 1, Len(s) - 1)) ELSE s

strip(s) == rstrip(lstrip(s))

RECURSIVE str_lt(_, _)
str_lt(a, b) ==
    IF b = <<>> THEN FALSE
    ELSE IF a = <<>> THEN TRUE
    ELSE IF ord(Head(a)) # ord(Head(b)) THEN ord(Head(a)) < ord(Head(b))
    ELSE str_lt(Tail(a), Tail(b))

(* ------------------------ DataFrame operations ------------------------- *)
(* mutant: the boolean mask is dropped, every row is kept *)
filtrar_sem_mascara(rows, col, val) == rows

(* df[df[col] == val] *)
filtrar(rows, col, val) == SelectSeq(rows, LAMBDA r : r[col] = val)

(* mutant: a supplied filter whose column is absent matches no row *)
df_mapa_de_coluna_exigida(d, ano, mes) ==
    LET r0 == d.rows
        r1 == IF ano # None
              THEN (IF "ANO" \in d.columns
                    THEN SelectSeq(r0, LAMBDA r : r.ANO = ano[1]) ELSE <<>>)
              ELSE r0
        r2 == IF mes # None
              THEN (IF "MES" \in d.columns
                    THEN SelectSeq(r1, LAMBDA r : r.MES = mes[1]) ELSE <<>>)
              ELSE r1
    IN  [columns |-> d.columns, rows |-> r2]

(* mutant: the month mask is taken on df, not on the year-filtered frame *)
df_mapa_de_mes_sobre_df(d, ano, mes) ==
    LET r0 == d.rows
        r1 == IF ano # None /\ "ANO" \in d.columns
              THEN filtrar(r0, "ANO", ano[1]) ELSE r0
        r2 == IF mes # None /\ "MES" \in d.columns
              THEN filtrar(r0, "MES", mes[1]) ELSE r1
    IN  [columns |-> d.columns, rows |-> r2]

(* utils.py 29-36: the copy and the two optional equality filters *)
df_mapa_de(d, ano, mes) ==
    LET r0 == d.rows
        r1 == IF ano # None /\ "ANO" \in d.columns
              THEN filtrar(r0, "ANO", ano[1]) ELSE r0
        r2 == IF mes # None /\ "MES" \in d.columns
              THEN filtrar(r1, "MES", mes[1]) ELSE r1
    IN  [columns |-> d.columns, rows |-> r2]

RECURSIVE soma(_, _, _, _)
soma(rows, col_municipio, col_vitimas, chave) ==
    IF rows = <<>> THEN 0
    ELSE (IF Head(rows)[col_municipio] = chave
          THEN Head(rows)[col_vitimas] ELSE 0)
         + soma(Tail(rows), col_municipio, col_vitimas, chave)

RECURSIVE ordenar_chaves(_)
ordenar_chaves(S) ==
    IF S = {} THEN <<>>
    ELSE LET k == CHOOSE x \in S : \A y \in S \ {x} : str_lt(x, y)
         IN  <<k>> \o ordenar_chaves(S \ {k})

(* groupby(col_municipio)[col_vitimas].sum(): one entry per distinct raw   *)
(* key, keys in ascending string order                                      *)
groupby_sum(rows, col_municipio, col_vitimas) ==
    LET chaves == ordenar_chaves({rows[i][col_municipio] : i \in 1..Len(rows)})
    IN  [i \in 1..Len(chaves) |->
            [MUNICIPIO |-> chaves[i],
             TOTAL |-> soma(rows, col_municipio, col_vitimas, chaves[i])]]

reverse(s) == [i \in 1..Len(s) |-> s[Len(s) + 1 - i]]

(* argsort ascending of the values of s; among equal values the stable     *)
(* kernel takes the earliest position first, the other kernel the latest   *)
RECURSIVE argsort(_, _, _)
argsort(s, I, estavel) ==
    IF I = {} THEN <<>>
    ELSE LET minimos == {i \in I : \A j \in I : s[i].TOTAL <= s[j].TOTAL}
             i0 == IF estavel
                   THEN CHOOSE i \in minimos : \A j \in minimos : i <= j
                   ELSE CHOOSE i \in minimos : \A j \in minimos : i >= j
         IN  <<i0>> \o argsort(s, I \ {i0}, estavel)

(* mutant: the order of equal values changes from one call to the next *)
sort_values_instavel(s, estavel) ==
    LET r == reverse(s)
        idx == argsort(r, DOMAIN r, chamadas % 2 = 0)
    IN  reverse([i \in 1..Len(r) |-> r[idx[i]]])

(* mutant: ascending=False is left out *)
sort_values_crescente(s, estavel) ==
    LET idx == argsort(s, DOMAIN s, estavel)
    IN  [i \in 1..Len(s) |-> s[idx[i]]]

(* Series.sort_values(ascending=False): pandas reverses the values, sorts   *)
(* them ascending with the numpy kernel and reverses the result              *)
sort_values(s, estavel) ==
    LET r == reverse(s)
        idx == argsort(r, DOMAIN r, estavel)
    IN  reverse([i \in 1..Len(r) |-> r[idx[i]]])

(* mutant: head() without the cut *)
head_sem_corte(s, n) == s

head(s, n) == SubSeq(s, 1, IF n < Len(s) THEN n ELSE Len(s))

RECURSIVE max_total(_)
max_total(s) ==
    IF Len(s) = 1 THEN s[1].TOTAL
    ELSE LET m == max_total(Tail(s))
         IN  IF s[1].TOTAL > m THEN s[1].TOTAL ELSE m

(* ------------------------- binary64 products --------------------------- *)
(* A natural number is a little-endian sequence of six limbs base 2^16.    *)
(* The float literal c is mant / 2^exp with a 53-bit mantissa:             *)
(*   0.7 = 0x16666666666666 / 2^53,  0.4 = 0x1999999999999A / 2^54,        *)
(*   0.2 = 0x1999999999999A / 2^55.                                        *)
mant_07 == <<26214, 26214, 26214, 22, 0, 0>>
mant_04 == <<39322, 39321, 39321, 25, 0, 0>>

RECURSIVE carry(_, _)
carry(x, c) ==
    IF x = <<>> THEN <<>>
    ELSE <<(Head(x) + c) % (2^16)>> \o carry(Tail(x), (Head(x) + c) \div (2^16))

big_mul(x, k) == carry([i \in 1..Len(x) |-> x[i] * k], 0)

big_lt(a, b) ==
    \E i \in 1..Len(a) :
        /\ a[i] < b[i]
        /\ \A j \in (i + 1)..Len(a) : a[j] = b[j]

RECURSIVE log2(_)
log2(n) == IF n <= 1 THEN 0 ELSE 1 + log2(n \div 2)

bit_length(x) ==
    LET top == CHOOSE i \in 1..Len(x) :
                   x[i] # 0 /\ \A j \in (i + 1)..Len(x) : x[j] = 0
    IN  16 * (top - 1) + log2(x[top]) + 1

(* The exact product p rounded to 53 significant bits, ties to even; the   *)
(* result is still scaled by 2^exp.  For m < 2^15 at most 15 low bits are  *)
(* dropped, all of them in the first limb.                                 *)
round53(p) ==
    LET s == bit_length(p) - 53
        resto == p[1] % (2^s)
        quoc == p[1] \div (2^s)
        acima == 2 * resto > 2^s \/ (2 * resto = 2^s /\ quoc % 2 = 1)
    IN  IF s <= 0 THEN p
        ELSE carry([p EXCEPT ![1] = p[1] - resto + (IF acima THEN 2^s ELSE 0)], 0)

(* v > m * c evaluated as Python does: m * c is a binary64 product, the    *)
(* integer v is compared with it exactly                                   *)
gt_produto(v, m, mant, exp) ==
    IF m = 0 THEN v > 0
    ELSE big_lt(round53(big_mul(mant, m)),
                big_mul(<<0, 0, 0, 2^(exp - 48), 0, 0>>, v))

(* ------------------------------ scene ---------------------------------- *)
(* mutant: the colours of the two middle tiers are exchanged *)
cor_trocada(vitimas, maximo) ==
    IF gt_produto(vitimas, maximo, mant_07, 53) THEN "#8B0000"
    ELSE IF gt_produto(vitimas, maximo, mant_04, 54) THEN "#FF6347"
    ELSE IF gt_produto(vitimas, maximo, mant_04, 55) THEN "#DC143C"
    ELSE "#FFA07A"

(* utils.py 62-70 *)
cor(vitimas, maximo) ==
    IF gt_produto(vitimas, maximo, mant_07, 53) THEN "#8B0000"
    ELSE IF gt_produto(vitimas, maximo, mant_04, 54) THEN "#DC143C"
    ELSE IF gt_produto(vitimas, maximo, mant_04, 55) THEN "#FF6347"
    ELSE "#FFA07A"

(* utils.py 60: (vitimas / max_vitimas) * 30000 + 5000 as the fraction     *)
(* num/den; den = 0 is the NaN numpy yields for 0 / 0                      *)
raio(vitimas, maximo) ==
    [num |-> vitimas * 30000 + 5000 * maximo, den |-> maximo]

(* utils.py 85-96: the four legend lines *)
legend_html ==
    <<[cor |-> "#8B0000", texto |-> "Muito Alta (>70%)"],
      [cor |-> "#DC143C", texto |-> "Alta (40-70%)"],
      [cor |-> "#FF6347", texto |-> "Media (20-40%)"],
      [cor |-> "#FFA07A", texto |-> "Baixa (<20%)"]>>

(* utils.py 42 *)
Map == [location |-> <<-80476, -358770>>, zoom_start |-> 7,
        circulos |-> <<>>, html |-> <<>>]

(* utils.py 49-82: one Circle per aggregated row whose normalised name is  *)
(* a key of the coordinate table, in row order                             *)
circulo(row, maximo) ==
    LET municipio_upper == strip(upper(row.MUNICIPIO))
        coords == COORDENADAS_MUNICIPIOS[municipio_upper]
    IN  [location |-> <<coords.lat, coords.lon>>,
         radius |-> raio(row.TOTAL, maximo),
         color |-> cor(row.TOTAL, maximo),
         tooltip |-> <<row.MUNICIPIO, row.TOTAL>>]

tem_coordenada(row) ==
    strip(upper(row.MUNICIPIO)) \in DOMAIN COORDENADAS_MUNICIPIOS

(* mutant: the circles are scaled by the largest value that is drawn *)
circulos_de_max_visivel(agg, maximo) ==
    LET vis == SelectSeq(agg, tem_coordenada)
    IN  [i \in 1..Len(vis) |-> circulo(vis[i], max_total(vis))]

circulos_de(agg, maximo) ==
    LET vis == SelectSeq(agg, tem_coordenada)
    IN  [i \in 1..Len(vis) |-> circulo(vis[i], maximo)]

(* utils.py 39 *)
agregar(d, ano, mes, top_n, estavel) ==
    head(sort_values(groupby_sum(df_mapa_de(d, ano, mes).rows,
                                 "MUNICIPIO", "TOTAL"), estavel), top_n)

(* mutant: the legend is added only when a circle was drawn *)
mapa_de_legenda_condicional(agg) ==
    IF Len(agg) = 0 THEN Map
    ELSE LET cs == circulos_de(agg, max_total(agg))
         IN  [Map EXCEPT !.circulos = cs,
                         !.html = IF cs = <<>> THEN <<>> ELSE <<legend_html>>]

(* utils.py 14-99: the returned map *)
mapa_de(agg) ==
    IF Len(agg) = 0 THEN Map
    ELSE [Map EXCEPT !.circulos = circulos_de(agg, max_total(agg)),
                     !.html = <<legend_html>>]

(* ------------------------- sidebar filters ----------------------------- *)
ColunasFiltro == {"ANO", "MES", "REGIAO_GEOGRAFICA", "MUNICIPIO", "SEXO", "IDADE"}

(* 'Todos' as an option of the municipality multiselect *)
Todos == <<"T", "o", "d", "o", "s">>

(* A missing age (NaN) is <<>>, an age is <<n>> *)
LinhaBase ==
    [ANO |-> 2023, MES |-> 1, REGIAO_GEOGRAFICA |-> "SERTAO",
     MUNICIPIO |-> EXU, SEXO |-> "MASCULINO", IDADE |-> <<20>>]

LinhasFiltro ==
    {LinhaBase,
     [LinhaBase EXCEPT !.ANO = 2022], [LinhaBase EXCEPT !.ANO = 2024],
     [LinhaBase EXCEPT !.MES = 2],
     [LinhaBase EXCEPT !.REGIAO_GEOGRAFICA = "AGRESTE"],
     [LinhaBase EXCEPT !.MUNICIPIO = OZ],
     [LinhaBase EXCEPT !.SEXO = "FEMININO"],
     [LinhaBase EXCEPT !.IDADE = <<10>>], [LinhaBase EXCEPT !.IDADE = <<30>>],
     [LinhaBase EXCEPT !.IDADE = None]}

FramesFiltro(cols) ==
    {[columns |-> cols, rows |-> r] :
        r \in UNION {[1..n -> {[c \in cols |-> l[c]] : l \in LinhasFiltro}] :
                        n \in 0..MaxRegistros}}

(* The filter dict handed to aplicar_filtros: every filter narrowed to the *)
(* values of LinhaBase, then changed in at most MaxAlterados dimensions.   *)
Dimensoes == {"ano", "meses", "regioes", "municipios", "sexos", "idade"}

ModosDe(d) ==
    IF d \in {"ano", "idade"} THEN {"ativo", "sem_chave", "amplo", "sem_coluna"}
    ELSE {"ativo", "sem_chave", "vazio", "todos", "todos_e_valor", "sem_coluna"}

Modos ==
    {m \in [Dimensoes -> {"ativo", "sem_chave", "amplo", "vazio", "todos",
                          "todos_e_valor", "sem_coluna"}] :
        /\ \A d \in Dimensoes : m[d] \in ModosDe(d)
        /\ Cardinality({d \in Dimensoes : m[d] # "ativo"}) <= MaxAlterados}

ColunaDe(d) ==
    CASE d = "ano" -> "ANO" [] d = "meses" -> "MES"
      [] d = "regioes" -> "REGIAO_GEOGRAFICA" [] d = "municipios" -> "MUNICIPIO"
      [] d = "sexos" -> "SEXO" [] d = "idade" -> "IDADE"

ColunasDe(m) == ColunasFiltro \ {ColunaDe(d) : d \in {x \in Dimensoes : m[x] = "sem_coluna"}}

Selecao(modo, valor, todos) ==
    CASE modo = "vazio" -> <<>>
      [] modo = "todos" -> <<todos>>
      [] modo = "todos_e_valor" -> <<todos, valor>>
      [] OTHER -> <<valor>>

FiltrosDe(m) ==
    LET chaves ==
            (IF m["ano"] = "sem_chave" THEN {"ano_inicio"}
             ELSE {"ano_inicio", "ano_fim"})
            \cup (IF m["idade"] = "sem_chave" THEN {"idade_min"}
                  ELSE {"idade_min", "idade_max"})
            \cup {d \in {"meses", "regioes", "municipios", "sexos"} :
                     m[d] # "sem_chave"}
    IN  [k \in chaves |->
            CASE k = "ano_inicio" -> IF m["ano"] = "amplo" THEN 2022 ELSE 2023
              [] k = "ano_fim" -> IF m["ano"] = "amplo" THEN 2024 ELSE 2023
              [] k = "idade_min" -> IF m["idade"] = "amplo" THEN 10 ELSE 20
              [] k = "idade_max" -> IF m["idade"] = "amplo" THEN 30 ELSE 20
              [] k = "meses" -> Selecao(m[k], "January", "Todos")
              [] k = "regioes" -> Selecao(m[k], "SERTAO", "Todas")
              [] k = "municipios" -> Selecao(m[k], EXU, Todos)
              [] k = "sexos" -> Selecao(m[k], "MASCULINO", "Todos")]

elementos(s) == {s[i] : i \in DOMAIN s}

(* utils.py 203: ['Todos'] + calendar.month_name[1..12] *)
meses_nomes ==
    <<"Todos", "January", "February", "March", "April", "May", "June", "July",
      "August", "September", "October", "November", "December">>

(* list.index(): position counted from 0 *)
index(lista, x) == (CHOOSE i \in DOMAIN lista : lista[i] = x) - 1

(* the smallest / largest element of a non-empty set of integers *)
minimo(S) == CHOOSE x \in S : \A y \in S : x <= y
maximo_de(S) == CHOOSE x \in S : \A y \in S : x >= y

(* utils.py 102-167 with every widget left at its default *)
criar_filtros_padrao_de(d) ==
    LET anos == {d.rows[i].ANO : i \in DOMAIN d.rows}
        idade_valida == {d.rows[i].IDADE[1] :
                            i \in {j \in DOMAIN d.rows : d.rows[j].IDADE # None}}
        tem_idade == "IDADE" \in d.columns /\ idade_valida # {}
        chaves ==
            (IF "ANO" \in d.columns THEN {"ano_inicio", "ano_fim"} ELSE {})
            \cup (IF "MES" \in d.columns THEN {"meses"} ELSE {})
            \cup (IF "REGIAO_GEOGRAFICA" \in d.columns THEN {"regioes"} ELSE {})
            \cup (IF "MUNICIPIO" \in d.columns THEN {"municipios"} ELSE {})
            \cup (IF "SEXO" \in d.columns THEN {"sexos"} ELSE {})
            \cup (IF tem_idade THEN {"idade_min", "idade_max"} ELSE {})
    IN  [k \in chaves |->
            CASE k = "ano_inicio" -> minimo(anos)
              [] k = "ano_fim" -> maximo_de(anos)
              [] k = "meses" -> <<"Todos">>
              [] k = "regioes" -> <<"Todas">>
              [] k = "municipios" -> <<Todos>>
              [] k = "sexos" -> <<"Todos">>
              [] k = "idade_min" -> minimo(idade_valida)
              [] k = "idade_max" -> maximo_de(idade_valida)]

(* utils.py 207-220: one multiselect filter *)
filtro_conjunto(rows, cols, f, chave, coluna, todos) ==
    IF chave \in DOMAIN f /\ coluna \in cols
    THEN IF todos \notin elementos(f[chave]) /\ Len(f[chave]) > 0
         THEN SelectSeq(rows, LAMBDA r : r[coluna] \in elementos(f[chave]))
         ELSE rows
    ELSE rows

(* mutant: the len(...) > 0 test is left out, an empty selection keeps no row *)
aplicar_filtros_de_sem_len(d, f) ==
    LET cols == d.columns
        semlen(rows, chave, coluna, todos) ==
            IF chave \in DOMAIN f /\ coluna \in cols
            THEN IF todos \notin elementos(f[chave])
                 THEN SelectSeq(rows, LAMBDA r : r[coluna] \in elementos(f[chave]))
                 ELSE rows
            ELSE rows
        r1 == IF "ano_inicio" \in DOMAIN f /\ "ano_fim" \in DOMAIN f /\ "ANO" \in cols
              THEN SelectSeq(d.rows, LAMBDA r : r.ANO >= f.ano_inicio /\ r.ANO <= f.ano_fim)
              ELSE d.rows
        r2 == IF "meses" \in DOMAIN f /\ "MES" \in cols
              THEN IF "Todos" \notin elementos(f.meses)
                   THEN SelectSeq(r1, LAMBDA r :
                            r.MES \in {index(meses_nomes, x) :
                                          x \in elementos(f.meses) \ {"Todos"}})
                   ELSE r1
              ELSE r1
        r3 == semlen(r2, "regioes", "REGIAO_GEOGRAFICA", "Todas")
        r4 == semlen(r3, "municipios", "MUNICIPIO", Todos)
        r5 == semlen(r4, "sexos", "SEXO", "Todos")
        r6 == IF "idade_min" \in DOMAIN f /\ "idade_max" \in DOMAIN f /\ "IDADE" \in cols
              THEN SelectSeq(r5, LAMBDA r :
                       /\ r.IDADE # None
                       /\ r.IDADE[1] >= f.idade_min
                       /\ r.IDADE[1] <= f.idade_max)
              ELSE r5
    IN  r6

(* utils.py 170-227; a comparison with a missing age is False *)
aplicar_filtros_de(d, f) ==
    LET cols == d.columns
        r1 == IF "ano_inicio" \in DOMAIN f /\ "ano_fim" \in DOMAIN f /\ "ANO" \in cols
              THEN SelectSeq(d.rows, LAMBDA r : r.ANO >= f.ano_inicio /\ r.ANO <= f.ano_fim)
              ELSE d.rows
        r2 == IF "meses" \in DOMAIN f /\ "MES" \in cols
              THEN IF "Todos" \notin elementos(f.meses) /\ Len(f.meses) > 0
                   THEN SelectSeq(r1, LAMBDA r :
                            r.MES \in {index(meses_nomes, x) :
                                          x \in elementos(f.meses) \ {"Todos"}})
                   ELSE r1
              ELSE r1
        r3 == filtro_conjunto(r2, cols, f, "regioes", "REGIAO_GEOGRAFICA", "Todas")
        r4 == filtro_conjunto(r3, cols, f, "municipios", "MUNICIPIO", Todos)
        r5 == filtro_conjunto(r4, cols, f, "sexos", "SEXO", "Todos")
        r6 == IF "idade_min" \in DOMAIN f /\ "idade_max" \in DOMAIN f /\ "IDADE" \in cols
              THEN SelectSeq(r5, LAMBDA r :
                       /\ r.IDADE # None
                       /\ r.IDADE[1] >= f.idade_min
                       /\ r.IDADE[1] <= f.idade_max)
              ELSE r5
    IN  r6

(* ------------------------ the dataset pages ---------------------------- *)
ColunasPagina ==
    {"MUNICIPIO", "TOTAL", "ANO", "MES", "REGIAO_GEOGRAFICA", "SEXO", "NATUREZA"}

(* TOTAL stands for the value column of the flow ('TOTAL DE VITIMAS' in    *)
(* MVI), NATUREZA for its nature column ('NATUREZA JURIDICA' in MVI)       *)
LinhaPagina ==
    [MUNICIPIO |-> EXU, TOTAL |-> 1, ANO |-> 2024, MES |-> 1,
     REGIAO_GEOGRAFICA |-> "SERTAO", SEXO |-> "MASCULINO", NATUREZA |-> "AMEACA"]

LinhasPagina ==
    {LinhaPagina,
     [LinhaPagina EXCEPT !.MUNICIPIO = exu_],
     [LinhaPagina EXCEPT !.ANO = 2023],
     [LinhaPagina EXCEPT !.MES = 2],
     [LinhaPagina EXCEPT !.REGIAO_GEOGRAFICA = "AGRESTE"],
     [LinhaPagina EXCEPT !.SEXO = "FEMININO"],
     [LinhaPagina EXCEPT !.NATUREZA = "LESAO"]}

FramesPagina ==
    {[columns |-> ColunasPagina, rows |-> r] :
        r \in UNION {[1..n -> LinhasPagina] : n \in 0..MaxRegistros}}

(* the sidebar widgets untouched, and with one widget changed *)
SelecaoPadrao ==
    [ano_inicio |-> 2023, ano_fim |-> 2024, meses |-> <<"Todos">>,
     regioes |-> <<"Todas">>, municipios |-> <<Todos>>,
     sexos |-> <<"Todos">>, naturezas |-> <<"Todas">>]

SelecoesPagina ==
    {SelecaoPadrao,
     [SelecaoPadrao EXCEPT !.ano_inicio = 2024],
     [SelecaoPadrao EXCEPT !.regioes = <<>>],
     [SelecaoPadrao EXCEPT !.regioes = <<"SERTAO">>],
     [SelecaoPadrao EXCEPT !.municipios = <<>>],
     [SelecaoPadrao EXCEPT !.municipios = <<EXU>>],
     [SelecaoPadrao EXCEPT !.sexos = <<>>],
     [SelecaoPadrao EXCEPT !.sexos = <<"MASCULINO">>],
     [SelecaoPadrao EXCEPT !.naturezas = <<>>],
     [SelecaoPadrao EXCEPT !.naturezas = <<"AMEACA">>]}

(* the sidebar widgets each page draws *)
WidgetsDe(key) ==
    CASE key \in {"MVI", "Estupro"} ->
           {"ano_inicio", "ano_fim", "meses", "regioes", "municipios", "sexos",
            "naturezas"}
      [] key = "CVP" -> {"ano_inicio", "ano_fim", "regioes", "municipios"}
      [] key = "Violencia_Domestica" ->
           {"ano_inicio", "ano_fim", "naturezas", "sexos"}

(* analise_cvp.py 46-49: an inline multiselect filter *)
filtro_inline(rows, selecao, coluna, todos) ==
    IF todos \notin elementos(selecao)
    THEN SelectSeq(rows, LAMBDA r : r[coluna] \in elementos(selecao))
    ELSE rows

(* analise_mvi.py 54-55: an inline multiselect filter after aplicar_filtros *)
filtro_inline_com_len(rows, selecao, coluna, todos) ==
    IF todos \notin elementos(selecao) /\ Len(selecao) > 0
    THEN SelectSeq(rows, LAMBDA r : r[coluna] \in elementos(selecao))
    ELSE rows

(* analise_cvp.py 45: the year range *)
filtro_anos(rows, ano_inicio, ano_fim) ==
    SelectSeq(rows, LAMBDA r : r.ANO >= ano_inicio /\ r.ANO <= ano_fim)

(* the sidebar-filtered rows of each page *)
filtrar_pagina_de(key, d, f) ==
    CASE key \in {"MVI", "Estupro"} ->
           filtro_inline_com_len(aplicar_filtros_de(d, f), f.naturezas,
                                 "NATUREZA", "Todas")
      [] key = "CVP" ->
           filtro_inline(
               filtro_inline(filtro_anos(d.rows, f.ano_inicio, f.ano_fim),
                             f.regioes, "REGIAO_GEOGRAFICA", "Todas"),
               f.municipios, "MUNICIPIO", Todos)
      [] key = "Violencia_Domestica" ->
           filtro_inline(
               filtro_inline(filtro_anos(d.rows, f.ano_inicio, f.ano_fim),
                             f.naturezas, "NATUREZA", "Todas"),
               f.sexos, "SEXO", "Todos")

TopMunicipios == 15

(* mutant: the map is given the loaded frame *)
quadro_do_mapa_sem_filtros(d, filtrado) == d

(* the frame handed to criar_mapa_calor, e.g. analise_mvi.py 76, 147 *)
quadro_do_mapa(d, filtrado) == [columns |-> d.columns, rows |-> filtrado]

(* the 'Top 15 Municipios' table next to the map, e.g. analise_cvp.py 96 *)
top_municipios(filtrado, estavel) ==
    head(sort_values(groupby_sum(filtrado, "MUNICIPIO", "TOTAL"), estavel),
         TopMunicipios)

(* ------------------- dataset selection and loaders -------------------- *)
(* app.py 66-103: the keys with the (arquivo, sheet) pair the loaders take *)
BASES_DISPONIVEIS ==
    [key \in {"MVI", "Estupro", "CVP", "Violencia_Domestica"} |->
        CASE key = "MVI" ->
               [arquivo |-> "dados/MICRODADOS_DE_MVI_JAN_2004_A_NOV_2025.xlsx",
                sheet |-> "Plan1"]
          [] key = "Estupro" ->
               [arquivo |-> "dados/MICRODADOS_ESTUPRO_JAN_2015_A_NOV_2025.xlsx",
                sheet |-> "Plan1"]
          [] key = "CVP" ->
               [arquivo |-> "dados/Microdados_de_CVP_-_Disponivel_janeiro_de_2014_a_novembro_de_2025.xlsx",
                sheet |-> "microdados cvp"]
          [] key = "Violencia_Domestica" ->
               [arquivo |-> "dados/MICRODADOS_DE_VIOLENCIA_DOMESTICA_JAN_2015_A_NOV_2025.xlsx",
                sheet |-> "Plan1"]]

Bases == DOMAIN BASES_DISPONIVEIS

(* pd.read_excel(arquivo, sheet_name=sheet): the sheet as it is on disk *)
read_excel(arquivo, sheet) ==
    [arquivo |-> arquivo, sheet |-> sheet, preparado |-> FALSE,
     FAIXA_ETARIA |-> FALSE]

(* the rest of a loader body: rename to the canonical columns, DATA to a   *)
(* datetime, the derived MES columns                                       *)
preparar_de(d) == [d EXCEPT !.preparado = TRUE]

(* what a complete run of the loader of a dataset returns *)
carregar_dados(key) ==
    preparar_de(read_excel(BASES_DISPONIVEIS[key].arquivo,
                           BASES_DISPONIVEIS[key].sheet))

(* analise_mvi.py 201: the MVI page adds a column to the frame it was given *)
render_de(key, d) ==
    IF key = "MVI" THEN [d EXCEPT !.FAIXA_ETARIA = TRUE] ELSE d

(* app.py 141-163: the if/elif chain on base_selecionada *)
modulo_de(base) ==
    IF base = None THEN None
    ELSE CASE base[1] = "MVI" -> <<"analise_mvi">>
           [] base[1] = "Estupro" -> <<"analise_estupro">>
           [] base[1] = "CVP" -> <<"analise_cvp">>
           [] base[1] = "Violencia_Domestica" -> <<"analise_violencia_domestica">>
           [] OTHER -> None

(* mutant: the footer is drawn on every screen *)
visao_de_footer_fixo(base) ==
    [voltar |-> base # None, botoes |-> base = None,
     modulo |-> modulo_de(base), footer |-> TRUE]

(* what one complete script run draws: the back button (app.py 106), the   *)
(* dataset buttons (112), the analysis module (141), the footer (166)      *)
visao_de(base) ==
    [voltar |-> base # None, botoes |-> base = None,
     modulo |-> modulo_de(base), footer |-> base = None]

TelaSelecao == [base |-> None, df |-> None, visao |-> visao_de(None)]

Interacao(tipo, s, key) == [tipo |-> tipo, sessao |-> s, key |-> key]

(* ----------------------------- behaviour ------------------------------- *)
AppParado ==
    /\ sessoes = {}
    /\ base_selecionada = <<>>
    /\ pc = <<>>
    /\ local = <<>>
    /\ origem = <<>>
    /\ tela = <<>>
    /\ cache = <<>>
    /\ execucoes = <<>>
    /\ evento = Interacao("nenhuma", 0, "")

PaginaParada ==
    /\ fluxo = ""
    /\ ranking = <<>>

SemFiltros == [k \in {} |-> 0]

FiltrosParados ==
    /\ filtros = SemFiltros
    /\ df_filtrado = <<>>
    /\ etapa = "mapa"

SemMapa == [location |-> <<0, 0>>, zoom_start |-> 0,
            circulos |-> <<>>, html |-> <<>>]

Init ==
    /\ df \in DataFrames
    /\ ordem_empates \in BOOLEAN
    /\ args = [ano |-> None, mes |-> None, top_n |-> 1]
    /\ chamadas = 0
    /\ mapa = SemMapa
    /\ mapa_anterior = SemMapa
    /\ df_mapa_agg = <<>>
    /\ max_vitimas = 0
    /\ FiltrosParados
    /\ AppParado
    /\ PaginaParada

(* mutant: the filters are applied to the caller's frame (no df.copy()) *)
criar_mapa_calor_sem_copia(ano, mes, top_n) ==
    /\ chamadas < 2
    /\ chamadas > 0 => [ano |-> ano, mes |-> mes, top_n |-> top_n] = args
    /\ LET agg == agregar(df, ano, mes, top_n, ordem_empates)
       IN  /\ df_mapa_agg' = agg
           /\ max_vitimas' = IF Len(agg) = 0 THEN max_vitimas ELSE max_total(agg)
           /\ mapa' = mapa_de(agg)
    /\ mapa_anterior' = mapa
    /\ args' = [ano |-> ano, mes |-> mes, top_n |-> top_n]
    /\ chamadas' = chamadas + 1
    /\ df' = df_mapa_de(df, ano, mes)
    /\ UNCHANGED <<ordem_empates, vars_filtros, vars_app, vars_pagina>>

(* One call of criar_mapa_calor(df, 'MUNICIPIO', 'TOTAL', ano, mes, top_n); *)
(* a later call in the same session repeats the arguments (a rerun of the  *)
(* script with unchanged widgets).                                         *)
criar_mapa_calor(ano, mes, top_n) ==
    /\ chamadas < 2
    /\ chamadas > 0 => [ano |-> ano, mes |-> mes, top_n |-> top_n] = args
    /\ LET agg == agregar(df, ano, mes, top_n, ordem_empates)
       IN  /\ df_mapa_agg' = agg
           /\ max_vitimas' = IF Len(agg) = 0 THEN max_vitimas ELSE max_total(agg)
           /\ mapa' = mapa_de(agg)
    /\ mapa_anterior' = mapa
    /\ args' = [ano |-> ano, mes |-> mes, top_n |-> top_n]
    /\ chamadas' = chamadas + 1
    /\ UNCHANGED <<df, ordem_empates, vars_filtros, vars_app, vars_pagina>>

Next ==
    \E ano \in Anos, mes \in Meses, top_n \in 1..MaxTopN :
        criar_mapa_calor(ano, mes, top_n)

Spec == Init /\ [][Next]_vars

(* The same operation applied to pre-aggregated frames *)
InitAgregado ==
    /\ df \in FramesAgregados
    /\ ordem_empates \in BOOLEAN
    /\ args = [ano |-> None, mes |-> None, top_n |-> 1]
    /\ chamadas = 0
    /\ mapa = SemMapa
    /\ mapa_anterior = SemMapa
    /\ df_mapa_agg = <<>>
    /\ max_vitimas = 0
    /\ FiltrosParados
    /\ AppParado
    /\ PaginaParada

SpecAgregado == InitAgregado /\ [][Next]_vars

(* The same operation applied to frames with crossed dates *)
InitCruzado ==
    /\ df \in FramesCruzados
    /\ ordem_empates \in BOOLEAN
    /\ args = [ano |-> None, mes |-> None, top_n |-> 1]
    /\ chamadas = 0
    /\ mapa = SemMapa
    /\ mapa_anterior = SemMapa
    /\ df_mapa_agg = <<>>
    /\ max_vitimas = 0
    /\ FiltrosParados
    /\ AppParado
    /\ PaginaParada

SpecCruzado == InitCruzado /\ [][Next]_vars

(* ---------------------- behaviour of the filters ----------------------- *)
MapaParado ==
    /\ ordem_empates = TRUE
    /\ args = [ano |-> None, mes |-> None, top_n |-> 1]
    /\ chamadas = 0
    /\ mapa = SemMapa
    /\ mapa_anterior = SemMapa
    /\ df_mapa_agg = <<>>
    /\ max_vitimas = 0

InitFiltros ==
    /\ \E m \in Modos :
          /\ df \in FramesFiltro(ColunasDe(m))
          /\ filtros = FiltrosDe(m)
    /\ df_filtrado = <<>>
    /\ etapa = "inicio"
    /\ MapaParado
    /\ AppParado
    /\ PaginaParada

(* analise_mvi.py 43: the sidebar is built and no widget is touched; the   *)
(* loaded record sets are not empty                                        *)
criar_filtros_padrao ==
    /\ etapa = "inicio"
    /\ df.columns = ColunasFiltro
    /\ df.rows # <<>>
    /\ filtros' = criar_filtros_padrao_de(df)
    /\ etapa' = "padrao"
    /\ UNCHANGED <<df, df_filtrado, vars_mapa, vars_app, vars_pagina>>

(* analise_mvi.py 51 *)
aplicar_filtros ==
    /\ etapa \in {"inicio", "padrao"}
    /\ df_filtrado' = aplicar_filtros_de(df, filtros)
    /\ etapa' = IF etapa = "padrao" THEN "aplicado_padrao" ELSE "aplicado"
    /\ UNCHANGED <<df, filtros, vars_mapa, vars_app, vars_pagina>>

NextFiltros == criar_filtros_padrao \/ aplicar_filtros

SpecFiltros == InitFiltros /\ [][NextFiltros]_vars

(* ----------------------- behaviour of a page --------------------------- *)
InitPagina ==
    /\ fluxo \in Bases
    /\ df \in FramesPagina
    /\ \E sel \in SelecoesPagina :
          filtros = [k \in WidgetsDe(fluxo) |-> sel[k]]
    /\ df_filtrado = <<>>
    /\ etapa = "pagina"
    /\ ranking = <<>>
    /\ MapaParado
    /\ AppParado

(* the filters at the top of render(), e.g. analise_cvp.py 44-49 *)
filtrar_pagina ==
    /\ etapa = "pagina"
    /\ df_filtrado' = filtrar_pagina_de(fluxo, df, filtros)
    /\ etapa' = "filtrada"
    /\ UNCHANGED <<df, filtros, fluxo, ranking, vars_mapa, vars_app>>

(* the geographic tab: the map with its own controls (the month control    *)
(* exists only on the MVI page) and the table next to it                   *)
aba_geografica(ano, mes, top_n) ==
    /\ etapa = "filtrada"
    /\ fluxo # "MVI" => mes = None
    /\ LET agg == agregar(quadro_do_mapa(df, df_filtrado), ano, mes, top_n,
                          ordem_empates)
       IN  /\ df_mapa_agg' = agg
           /\ max_vitimas' = IF Len(agg) = 0 THEN max_vitimas ELSE max_total(agg)
           /\ mapa' = mapa_de(agg)
    /\ mapa_anterior' = mapa
    /\ args' = [ano |-> ano, mes |-> mes, top_n |-> top_n]
    /\ chamadas' = chamadas + 1
    /\ ranking' = top_municipios(df_filtrado, ordem_empates)
    /\ etapa' = "mapa"
    /\ UNCHANGED <<df, filtros, df_filtrado, fluxo, ordem_empates, vars_app>>

NextPagina ==
    \/ filtrar_pagina
    \/ \E ano \in Anos, mes \in Meses, top_n \in 1..MaxTopN :
          aba_geografica(ano, mes, top_n)

SpecPagina == InitPagina /\ [][NextPagina]_vars

(* -------------------- behaviour of the application --------------------- *)
(* The state after the first script run of every session: app.py 58-59    *)
(* has set base_selecionada to None and the selection screen is shown.    *)
InitApp(S) ==
    /\ sessoes = S
    /\ base_selecionada = [s \in S |-> None]
    /\ pc = [s \in S |-> "ocioso"]
    /\ local = [s \in S |-> None]
    /\ origem = [s \in S |-> "nenhuma"]
    /\ tela = [s \in S |-> TelaSelecao]
    /\ cache = [key \in Bases |-> None]
    /\ execucoes = [key \in Bases |-> 0]
    /\ evento = Interacao("nenhuma", 0, "")
    /\ df = [columns |-> {}, rows |-> <<>>]
    /\ MapaParado
    /\ FiltrosParados
    /\ PaginaParada

(* mutant: the dataset buttons are drawn on every screen *)
clicar_base_em_qualquer_tela(s, key) ==
    /\ pc[s] \in {"ocioso", "render"}
    /\ base_selecionada' = [base_selecionada EXCEPT ![s] = <<key>>]
    /\ pc' = [pc EXCEPT ![s] = "inicio"]
    /\ evento' = Interacao("btn", s, key)
    /\ UNCHANGED <<sessoes, local, origem, tela, cache, execucoes,
                   df, vars_mapa, vars_filtros, vars_pagina>>

(* app.py 112-128: a dataset button, drawn only on the selection screen *)
clicar_base(s, key) ==
    /\ pc[s] = "ocioso"
    /\ tela[s] = TelaSelecao
    /\ base_selecionada[s] = None
    /\ base_selecionada' = [base_selecionada EXCEPT ![s] = <<key>>]
    /\ pc' = [pc EXCEPT ![s] = "inicio"]
    /\ evento' = Interacao("btn", s, key)
    /\ UNCHANGED <<sessoes, local, origem, tela, cache, execucoes,
                   df, vars_mapa, vars_filtros, vars_pagina>>

(* app.py 106-109: the back button, drawn only when a dataset is selected; *)
(* a click during a page render stops that render                         *)
clicar_voltar(s) ==
    /\ pc[s] \in {"ocioso", "render"}
    /\ base_selecionada[s] # None
    /\ base_selecionada' = [base_selecionada EXCEPT ![s] = None]
    /\ pc' = [pc EXCEPT ![s] = "inicio"]
    /\ evento' = Interacao("voltar", s, "")
    /\ UNCHANGED <<sessoes, local, origem, tela, cache, execucoes,
                   df, vars_mapa, vars_filtros, vars_pagina>>

(* a sidebar filter or a map control of a dataset page: the script reruns *)
alterar_filtro(s) ==
    /\ pc[s] \in {"ocioso", "render"}
    /\ base_selecionada[s] # None
    /\ pc' = [pc EXCEPT ![s] = "inicio"]
    /\ evento' = Interacao("filtro", s, "")
    /\ UNCHANGED <<sessoes, base_selecionada, local, origem, tela, cache,
                   execucoes, df, vars_mapa, vars_filtros, vars_pagina>>

(* app.py 112-135, 166-173: a script run with no dataset selected *)
tela_de_selecao(s) ==
    /\ pc[s] = "inicio"
    /\ base_selecionada[s] = None
    /\ tela' = [tela EXCEPT ![s] =
                   [TelaSelecao EXCEPT !.visao = visao_de(base_selecionada[s])]]
    /\ local' = [local EXCEPT ![s] = None]
    /\ origem' = [origem EXCEPT ![s] = "nenhuma"]
    /\ pc' = [pc EXCEPT ![s] = "ocioso"]
    /\ evento' = Interacao("execucao", s, "")
    /\ UNCHANGED <<sessoes, base_selecionada, cache, execucoes,
                   df, vars_mapa, vars_filtros, vars_pagina>>

(* mutant: the loader without @st.cache_data *)
consultar_cache_sem_memoria(s) ==
    /\ pc[s] = "inicio"
    /\ base_selecionada[s] # None
    /\ local' = [local EXCEPT ![s] = None]
    /\ origem' = [origem EXCEPT ![s] = "leitura"]
    /\ pc' = [pc EXCEPT ![s] = "leitura"]
    /\ evento' = Interacao("execucao", s, "")
    /\ UNCHANGED <<sessoes, base_selecionada, tela, cache, execucoes,
                   df, vars_mapa, vars_filtros, vars_pagina>>

(* app.py 141-163 and the call of the @st.cache_data loader: a hit hands   *)
(* the page its own copy of the stored frame, a miss runs the loader body  *)
consultar_cache(s) ==
    /\ pc[s] = "inicio"
    /\ base_selecionada[s] # None
    /\ LET key == base_selecionada[s][1]
       IN  IF cache[key] # None
           THEN /\ local' = [local EXCEPT ![s] = cache[key]]
                /\ origem' = [origem EXCEPT ![s] = "cache"]
                /\ pc' = [pc EXCEPT ![s] = "render"]
           ELSE /\ local' = [local EXCEPT ![s] = None]
                /\ origem' = [origem EXCEPT ![s] = "leitura"]
                /\ pc' = [pc EXCEPT ![s] = "leitura"]
    /\ evento' = Interacao("execucao", s, "")
    /\ UNCHANGED <<sessoes, base_selecionada, tela, cache, execucoes,
                   df, vars_mapa, vars_filtros, vars_pagina>>

(* mutant: the frame is published to the cache as soon as it is read *)
ler_planilha_publicando(s) ==
    /\ pc[s] = "leitura"
    /\ LET key == base_selecionada[s][1]
           lido == read_excel(BASES_DISPONIVEIS[key].arquivo,
                              BASES_DISPONIVEIS[key].sheet)
       IN  /\ execucoes' = [execucoes EXCEPT ![key] = @ + 1]
           /\ local' = [local EXCEPT ![s] = <<lido>>]
           /\ cache' = [cache EXCEPT ![key] = <<lido>>]
    /\ pc' = [pc EXCEPT ![s] = "preparo"]
    /\ evento' = Interacao("execucao", s, "")
    /\ UNCHANGED <<sessoes, base_selecionada, origem, tela,
                   df, vars_mapa, vars_filtros, vars_pagina>>

(* the first line of a loader body, e.g. analise_mvi.py 17 *)
ler_planilha(s) ==
    /\ pc[s] = "leitura"
    /\ LET key == base_selecionada[s][1]
       IN  /\ execucoes' = [execucoes EXCEPT ![key] = @ + 1]
           /\ local' = [local EXCEPT ![s] =
                          <<read_excel(BASES_DISPONIVEIS[key].arquivo,
                                       BASES_DISPONIVEIS[key].sheet)>>]
    /\ pc' = [pc EXCEPT ![s] = "preparo"]
    /\ evento' = Interacao("execucao", s, "")
    /\ UNCHANGED <<sessoes, base_selecionada, origem, tela, cache,
                   df, vars_mapa, vars_filtros, vars_pagina>>

(* the rest of the loader body, e.g. analise_mvi.py 18-26 *)
preparar(s) ==
    /\ pc[s] = "preparo"
    /\ local' = [local EXCEPT ![s] = <<preparar_de(local[s][1])>>]
    /\ pc' = [pc EXCEPT ![s] = "guarda"]
    /\ evento' = Interacao("execucao", s, "")
    /\ UNCHANGED <<sessoes, base_selecionada, origem, tela, cache, execucoes,
                   df, vars_mapa, vars_filtros, vars_pagina>>

(* the loader returns: @st.cache_data stores a copy of the returned frame *)
guardar(s) ==
    /\ pc[s] = "guarda"
    /\ cache' = [cache EXCEPT ![base_selecionada[s][1]] = local[s]]
    /\ pc' = [pc EXCEPT ![s] = "render"]
    /\ evento' = Interacao("execucao", s, "")
    /\ UNCHANGED <<sessoes, base_selecionada, local, origem, tela, execucoes,
                   df, vars_mapa, vars_filtros, vars_pagina>>

(* the page of the selected dataset, e.g. analise_mvi.py 38-end *)
render(s) ==
    /\ pc[s] = "render"
    /\ LET key == base_selecionada[s][1]
       IN  /\ tela' = [tela EXCEPT ![s] =
                          [base |-> <<key>>, df |-> local[s],
                           visao |-> visao_de(base_selecionada[s])]]
           /\ local' = [local EXCEPT ![s] = <<render_de(key, local[s][1])>>]
    /\ pc' = [pc EXCEPT ![s] = "ocioso"]
    /\ evento' = Interacao("execucao", s, "")
    /\ UNCHANGED <<sessoes, base_selecionada, origem, cache, execucoes,
                   df, vars_mapa, vars_filtros, vars_pagina>>

NextApp ==
    \E s \in sessoes :
        \/ \E key \in Bases : clicar_base(s, key)
        \/ clicar_voltar(s)
        \/ alterar_filtro(s)
        \/ tela_de_selecao(s)
        \/ consultar_cache(s)
        \/ ler_planilha(s)
        \/ preparar(s)
        \/ guardar(s)
        \/ render(s)

(* one browser session *)
InitSessao == InitApp({1})

SpecSessao == InitSessao /\ [][NextApp]_vars

(* two browser sessions of the same server process *)
InitConcorrente == InitApp({1, 2})

SpecConcorrente == InitConcorrente /\ [][NextApp]_vars

(* ======================= properties of the map ========================= *)
(* The rows of df that pass the filters of the last call, stated on single *)
(* rows: a filter counts only when it was supplied and its column exists.  *)
Passa(r) ==
    /\ (args.ano # None /\ "ANO" \in df.columns) => r.ANO = args.ano[1]
    /\ (args.mes # None /\ "MES" \in df.columns) => r.MES = args.mes[1]

LinhasQuePassam == {i \in DOMAIN df.rows : Passa(df.rows[i])}

Chaves == {df.rows[i].MUNICIPIO : i \in LinhasQuePassam}

Resolvivel(nome) == strip(upper(nome)) \in DOMAIN COORDENADAS_MUNICIPIOS

ChavesResolviveis == {k \in Chaves : Resolvivel(k)}

RECURSIVE SomaIndices(_, _)
SomaIndices(I, chave) ==
    IF I = {} THEN 0
    ELSE LET i == CHOOSE x \in I : TRUE
         IN  (IF df.rows[i].MUNICIPIO = chave THEN df.rows[i].TOTAL ELSE 0)
             + SomaIndices(I \ {i}, chave)

Circulos == {mapa.circulos[i] : i \in DOMAIN mapa.circulos}

Maior(S) == CHOOSE m \in S : \A x \in S : m >= x

TotaisMantidos == {df_mapa_agg[i].TOTAL : i \in DOMAIN df_mapa_agg}

Nivel(c) ==
    CASE c = "#8B0000" -> 4 [] c = "#DC143C" -> 3
      [] c = "#FF6347" -> 2 [] c = "#FFA07A" -> 1

(* The tier partition on the exact ratio v / m, m > 0 *)
CorExata(v, m) ==
    IF 10 * v > 7 * m THEN "#8B0000"
    ELSE IF 10 * v > 4 * m THEN "#DC143C"
    ELSE IF 10 * v > 2 * m THEN "#FF6347"
    ELSE "#FFA07A"

(* C1: the number of circles never exceeds top_n nor the number of         *)
(* distinct group keys whose normalised name is in the coordinate table.   *)
C1_TopNBound ==
    chamadas > 0 =>
        /\ Len(mapa.circulos) <= args.top_n
        /\ Len(mapa.circulos) <= Cardinality(ChavesResolviveis)

C1_Witness ==
    /\ chamadas > 0
    /\ args.top_n = 1
    /\ Cardinality(ChavesResolviveis) = 2
    /\ Len(mapa.circulos) = 1

(* C2: every returned map contains the legend block, also when no group    *)
(* is left (0 circles).                                                    *)
C2_LegendAlways ==
    chamadas > 0 => \E i \in DOMAIN mapa.html : mapa.html[i] = legend_html

(* C3: when no record survives the filters the call returns a map with no  *)
(* circles centred on (-8.0476, -35.8770); the centre is that coordinate   *)
(* for every input.                                                        *)
C3_EmptyDefaultCenter ==
    chamadas > 0 =>
        /\ mapa.location = <<-80476, -358770>>
        /\ LinhasQuePassam = {} => mapa.circulos = <<>>

C3_Witness ==
    /\ chamadas > 0
    /\ df.rows # <<>>
    /\ LinhasQuePassam = {}
    /\ mapa.circulos = <<>>
    /\ mapa.location = <<-80476, -358770>>

(* C4: every circle's colour is the partition of value / max_value with    *)
(* strictly-greater lower bounds 0.70, 0.40, 0.20, for every integer pair. *)
C4_TierPartition ==
    (chamadas > 0 /\ max_vitimas > 0) =>
        \A c \in Circulos : c.color = CorExata(c.tooltip[2], max_vitimas)

(* C5: within one map, a circle with a larger value never has a lower      *)
(* tier than a circle with a smaller value.                                *)
C5_TierMonotone ==
    \A a, b \in Circulos :
        a.tooltip[2] > b.tooltip[2] => Nivel(a.color) >= Nivel(b.color)

C5_Witness ==
    \E a, b \in Circulos :
        /\ a.tooltip[2] > b.tooltip[2]
        /\ a.color = "#DC143C"
        /\ b.color = "#FF6347"

(* C6: a kept group whose normalised name is not in the coordinate table   *)
(* never yields a circle, yet its sum takes part in max_vitimas, which     *)
(* scales the radius of every circle that is drawn.                        *)
C6_LookupMissIsolation ==
    (chamadas > 0 /\ Len(df_mapa_agg) > 0) =>
        /\ max_vitimas = Maior(TotaisMantidos)
        /\ \A c \in Circulos :
              /\ Resolvivel(c.tooltip[1])
              /\ c.radius.den = Maior(TotaisMantidos)
              /\ c.radius.num = c.tooltip[2] * 30000 + 5000 * Maior(TotaisMantidos)
        /\ Len(mapa.circulos)
              = Cardinality({i \in DOMAIN df_mapa_agg :
                                Resolvivel(df_mapa_agg[i].MUNICIPIO)})

C6_Witness ==
    /\ chamadas > 0
    /\ \E i \in DOMAIN df_mapa_agg :
          /\ ~Resolvivel(df_mapa_agg[i].MUNICIPIO)
          /\ df_mapa_agg[i].TOTAL = max_vitimas
          /\ \A c \in Circulos : c.tooltip[2] < df_mapa_agg[i].TOTAL
    /\ \E c \in Circulos :
          /\ c.tooltip[2] > 0
          /\ c.radius.num < 35000 * c.radius.den
          /\ c.color # "#8B0000"

(* C7: a year filter on a frame without the ANO column, and a month filter *)
(* on a frame without the MES column, leave the records unfiltered by that *)
(* field: the kept groups are sums over all rows that pass the other one.  *)
SemColuna ==
    \/ args.ano # None /\ "ANO" \notin df.columns
    \/ args.mes # None /\ "MES" \notin df.columns

OutroFiltro(r) ==
    /\ ("ANO" \in df.columns /\ args.ano # None) => r.ANO = args.ano[1]
    /\ ("MES" \in df.columns /\ args.mes # None) => r.MES = args.mes[1]

C7_MissingColumnNoOp ==
    (chamadas > 0 /\ SemColuna) =>
        LET I == {i \in DOMAIN df.rows : OutroFiltro(df.rows[i])}
            K == {df.rows[i].MUNICIPIO : i \in I}
        IN  /\ Len(df_mapa_agg)
                 = (IF args.top_n < Cardinality(K) THEN args.top_n
                    ELSE Cardinality(K))
            /\ \A j \in DOMAIN df_mapa_agg :
                  /\ df_mapa_agg[j].MUNICIPIO \in K
                  /\ df_mapa_agg[j].TOTAL
                        = SomaIndices(I, df_mapa_agg[j].MUNICIPIO)

C7_Witness ==
    /\ chamadas > 0
    /\ args.ano # None
    /\ "ANO" \notin df.columns
    /\ "MES" \in df.columns
    /\ args.mes # None
    /\ Len(df.rows) = 2
    /\ Len(df_mapa_agg) = 1
    /\ df_mapa_agg[1].TOTAL > 0

(* C8: past the empty-result return max_vitimas is strictly positive and   *)
(* every kept group has a sum > 0, counts of 0 being allowed as input.     *)
C8_MaxPositive ==
    (chamadas > 0 /\ Len(df_mapa_agg) > 0) =>
        /\ max_vitimas > 0
        /\ \A i \in DOMAIN df_mapa_agg : df_mapa_agg[i].TOTAL > 0

(* C9: every circle's radius is (value / max_value) * 30000 + 5000, lies   *)
(* in (5000, 35000], grows strictly with the value and is 35000 for the    *)
(* group whose value is max_value.                                         *)
C9_RadiusRange ==
    chamadas > 0 =>
        \A c \in Circulos :
            /\ c.radius.den > 0
            /\ c.radius.num = c.tooltip[2] * 30000 + 5000 * c.radius.den
            /\ c.radius.num > 5000 * c.radius.den
            /\ c.radius.num <= 35000 * c.radius.den
            /\ c.tooltip[2] = max_vitimas => c.radius.num = 35000 * c.radius.den
            /\ \A d \in Circulos :
                  c.tooltip[2] > d.tooltip[2] => c.radius.num > d.radius.num

C11_InputUnchanged == [][df' = df]_vars

C11_Witness ==
    /\ chamadas > 0
    /\ args.ano # None
    /\ df.rows # <<>>
    /\ Cardinality(LinhasQuePassam) < Len(df.rows)

(* C12: the value of a circle is the sum of the value column over exactly  *)
(* the records with its group key that match the year filter and the month *)
(* filter (each when supplied and its column exists); the filters combine  *)
(* as a conjunction and give the same rows in either order.                *)
C12_ValueIsFilteredSum ==
    chamadas > 0 =>
        /\ \A i \in DOMAIN df_mapa_agg :
              df_mapa_agg[i].TOTAL
                 = SomaIndices(LinhasQuePassam, df_mapa_agg[i].MUNICIPIO)
        /\ \A c \in Circulos :
              c.tooltip[2] = SomaIndices(LinhasQuePassam, c.tooltip[1])
        /\ (args.ano # None /\ args.mes # None) =>
              /\ filtrar(filtrar(df.rows, "ANO", args.ano[1]), "MES", args.mes[1])
                    = filtrar(filtrar(df.rows, "MES", args.mes[1]), "ANO", args.ano[1])
              /\ df_mapa_de(df, args.ano, args.mes).rows
                    = filtrar(filtrar(df.rows, "MES", args.mes[1]), "ANO", args.ano[1])

C12_Witness ==
    /\ chamadas > 0
    /\ args.ano # None
    /\ args.mes # None
    /\ \E i, j \in DOMAIN df.rows :
          /\ df.rows[i].MUNICIPIO = EXU /\ df.rows[j].MUNICIPIO = EXU
          /\ df.rows[i].TOTAL = 1 /\ df.rows[j].TOTAL = 1
          /\ df.rows[i].ANO = 2024 /\ df.rows[i].MES = 1
          /\ df.rows[j].ANO = 2023 /\ df.rows[j].MES = 1
    /\ \E c \in Circulos : c.tooltip = <<EXU, 1>>

(* C13: the kept groups are the top_n groups by summed value: no kept      *)
(* group has a smaller sum than a group that was cut, and the circles are  *)
(* emitted in non-increasing order of value.                               *)
ChavesMantidas == {df_mapa_agg[i].MUNICIPIO : i \in DOMAIN df_mapa_agg}

C13_Ranking ==
    chamadas > 0 =>
        /\ Len(df_mapa_agg)
              = (IF args.top_n < Cardinality(Chaves) THEN args.top_n
                 ELSE Cardinality(Chaves))
        /\ ChavesMantidas \subseteq Chaves
        /\ \A i \in DOMAIN df_mapa_agg :
              \A k \in Chaves \ ChavesMantidas :
                  df_mapa_agg[i].TOTAL >= SomaIndices(LinhasQuePassam, k)
        /\ \A i, j \in DOMAIN mapa.circulos :
              i < j => mapa.circulos[i].tooltip[2] >= mapa.circulos[j].tooltip[2]

C13_Witness ==
    /\ chamadas > 0
    /\ args.top_n = 2
    /\ Len(mapa.circulos) = 2
    /\ mapa.circulos[1].tooltip[2] > mapa.circulos[2].tooltip[2]
    /\ \E k \in Chaves \ ChavesMantidas :
          SomaIndices(LinhasQuePassam, k) < mapa.circulos[2].tooltip[2]

(* C14: whenever at least one group is left the map carries the same fixed *)
(* legend with the four tiers, whatever colours occur among the circles    *)
(* and whether or not any group had a coordinate.                          *)
C14_LegendFixed ==
    (chamadas > 0 /\ Len(df_mapa_agg) > 0) =>
        /\ mapa.html = <<legend_html>>
        /\ {legend_html[i].cor : i \in DOMAIN legend_html}
              = {"#8B0000", "#DC143C", "#FF6347", "#FFA07A"}

C14_Witness ==
    /\ chamadas > 0
    /\ Len(df_mapa_agg) > 0
    /\ mapa.circulos = <<>>
    /\ mapa.html = <<legend_html>>

(* C19: in a non-empty result the circle of a group whose sum equals       *)
(* max_value is very_high (#8B0000) with radius 35000.                     *)
C19_TopGroupVeryHigh ==
    (chamadas > 0 /\ Len(df_mapa_agg) > 0) =>
        \A c \in Circulos :
            c.tooltip[2] = max_vitimas =>
                /\ c.color = "#8B0000"
                /\ c.radius.den > 0
                /\ c.radius.num = 35000 * c.radius.den

(* ===================== properties of the filters ======================= *)
Inativo(chave, coluna, todos) ==
    \/ chave \notin DOMAIN filtros
    \/ coluna \notin df.columns
    \/ filtros[chave] = <<>>
    \/ todos \in elementos(filtros[chave])

NoConjunto(r, chave, coluna, todos) ==
    Inativo(chave, coluna, todos) \/ r[coluna] \in elementos(filtros[chave])

NumeroDoMes(nome) ==
    CASE nome = "January" -> 1 [] nome = "February" -> 2 [] OTHER -> 0

Satisfaz(r) ==
    /\ ({"ano_inicio", "ano_fim"} \subseteq DOMAIN filtros /\ "ANO" \in df.columns)
          => (filtros.ano_inicio <= r.ANO /\ r.ANO <= filtros.ano_fim)
    /\ \/ Inativo("meses", "MES", "Todos")
       \/ \E nome \in elementos(filtros.meses) : NumeroDoMes(nome) = r.MES
    /\ NoConjunto(r, "regioes", "REGIAO_GEOGRAFICA", "Todas")
    /\ NoConjunto(r, "municipios", "MUNICIPIO", Todos)
    /\ NoConjunto(r, "sexos", "SEXO", "Todos")
    /\ ({"idade_min", "idade_max"} \subseteq DOMAIN filtros /\ "IDADE" \in df.columns)
          => (r.IDADE # None /\ filtros.idade_min <= r.IDADE[1]
                             /\ r.IDADE[1] <= filtros.idade_max)

RECURSIVE OsQueSatisfazem(_)
OsQueSatisfazem(rows) ==
    IF rows = <<>> THEN <<>>
    ELSE (IF Satisfaz(Head(rows)) THEN <<Head(rows)>> ELSE <<>>)
         \o OsQueSatisfazem(Tail(rows))

(* C17: aplicar_filtros returns exactly the input records that satisfy all *)
(* active filters at once (a set filter is inactive with 'Todos'/'Todas'   *)
(* or an empty selection, any filter when its key or column is missing),   *)
(* in input order, and leaves the input unchanged.                         *)
C17_Aplicado ==
    etapa \in {"aplicado", "aplicado_padrao"} =>
        df_filtrado = OsQueSatisfazem(df.rows)

C17_ExactFilter == []C17_Aplicado /\ [][df' = df]_vars

C17_Witness ==
    /\ etapa = "aplicado"
    /\ Len(df.rows) = 2
    /\ Len(df_filtrado) = 1
    /\ "regioes" \in DOMAIN filtros
    /\ filtros.regioes = <<>>
    /\ df.columns = ColunasFiltro

(* C20: with the default selections of criar_filtros_padrao,               *)
(* aplicar_filtros returns every record of the input, also the records     *)
(* whose age is missing.                                                   *)
C20_DefaultsKeepAll ==
    etapa = "aplicado_padrao" => df_filtrado = df.rows

(* =================== properties of the application ===================== *)
(* C15: over any sequence of dataset selections, back navigations and      *)
(* filter interactions the loader body of a dataset runs at most once;     *)
(* every later page of that dataset is drawn from the cached record set,   *)
(* and selecting another dataset neither evicts nor alters it.             *)
C15_NoMaximoUmaVez ==
    /\ \A key \in Bases : execucoes[key] <= 1
    /\ \A key \in Bases : execucoes[key] = 1 /\ cache[key] # None
                            => cache[key] = <<carregar_dados(key)>>
    /\ \A s \in sessoes :
          tela[s] # TelaSelecao => tela[s].df = cache[tela[s].base[1]]

C15_CachePermanece ==
    \A key \in Bases : cache[key] # None => cache'[key] = cache[key]

C15_LoadOnce == []C15_NoMaximoUmaVez /\ [][C15_CachePermanece]_vars

C15_Witness ==
    /\ tela[1].base = <<"MVI">>
    /\ origem[1] = "cache"
    /\ pc[1] = "ocioso"
    /\ execucoes["MVI"] = 1
    /\ cache["CVP"] # None
    /\ evento.tipo = "execucao"

(* C16: when two sessions select the same dataset before it is cached, any *)
(* interleaving leaves the cache holding what a single population stores,  *)
(* every page is drawn from a completely built record set, and a redundant *)
(* population stores the same value again.                                 *)
C16_CacheCompleto ==
    /\ \A key \in Bases : cache[key] \in {None, <<carregar_dados(key)>>}
    /\ \A s \in sessoes :
          tela[s] # TelaSelecao
             => tela[s].df = <<carregar_dados(tela[s].base[1])>>
    /\ \A s \in sessoes :
          pc[s] = "render"
             => local[s] = <<carregar_dados(base_selecionada[s][1])>>

C16_Idempotente ==
    \A key \in Bases : cache[key] # None => cache'[key] = cache[key]

C16_RaceTolerant == []C16_CacheCompleto /\ [][C16_Idempotente]_vars

C16_Witness ==
    /\ execucoes["CVP"] = 2
    /\ cache["CVP"] = <<carregar_dados("CVP")>>
    /\ \A s \in sessoes : tela[s].base = <<"CVP">> /\ origem[s] = "leitura"

(* C18: base_selecionada is always None or one of the four keys of         *)
(* BASES_DISPONIVEIS and starts as None; it goes from None to a key only   *)
(* by a click on that dataset's button on the selection screen and from a  *)
(* key only to None by the back button; no other interaction changes it.   *)
C18_Tipo ==
    \A s \in sessoes :
        \/ base_selecionada[s] = None
        \/ \E key \in Bases : base_selecionada[s] = <<key>>

C18_Passo ==
    \A s \in sessoes :
        base_selecionada'[s] # base_selecionada[s] =>
            \/ /\ base_selecionada[s] = None
               /\ tela[s] = TelaSelecao
               /\ \E key \in Bases :
                     /\ base_selecionada'[s] = <<key>>
                     /\ evento' = Interacao("btn", s, key)
            \/ /\ base_selecionada[s] # None
               /\ base_selecionada'[s] = None
               /\ evento' = Interacao("voltar", s, "")

C18_StateMachine ==
    /\ \A s \in sessoes : base_selecionada[s] = None
    /\ []C18_Tipo
    /\ [][C18_Passo]_vars

C18_Witness ==
    /\ base_selecionada[1] = <<"Estupro">>
    /\ evento = Interacao("filtro", 1, "")
    /\ cache["MVI"] # None

(* ================ properties of the groups on the map ================== *)
ChaveDeBusca(c) == strip(upper(c.tooltip[1]))

(* C22: a map has at most one circle per key of the coordinate table:      *)
(* municipality names that differ only by letter case or surrounding white *)
(* space are one group and one circle.                                     *)
C22_OneMarkerPerKey ==
    chamadas > 0 =>
        \A i, j \in DOMAIN mapa.circulos :
            ChaveDeBusca(mapa.circulos[i]) = ChaveDeBusca(mapa.circulos[j])
                => i = j

(* C23: the number of circles is min(top_n, number of groups with a        *)
(* coordinate): groups without a coordinate use no top-N slot.             *)
C23_MarkerCount ==
    chamadas > 0 =>
        Len(mapa.circulos)
            = (IF args.top_n < Cardinality(ChavesResolviveis) THEN args.top_n
               ELSE Cardinality(ChavesResolviveis))

(* ================= properties of the dataset pages ===================== *)
SentinelaDe(k) == IF k = "municipios" THEN Todos
                  ELSE IF k \in {"regioes", "naturezas"} THEN "Todas"
                  ELSE "Todos"

ComSentinela(f) ==
    [k \in DOMAIN f |->
        IF k \in {"meses", "regioes", "municipios", "sexos", "naturezas"}
           /\ f[k] = <<>>
        THEN <<SentinelaDe(k)>> ELSE f[k]]

(* C21: in all four pages an empty multiselect acts like 'Todos'/'Todas':  *)
(* the filter is a no-op and does not empty the record set.                *)
C21_EmptyIsAll ==
    etapa \in {"filtrada", "mapa"} =>
        df_filtrado = filtrar_pagina_de(fluxo, df, ComSentinela(filtros))

PassaNoMapa(r) ==
    /\ args.ano # None => r.ANO = args.ano[1]
    /\ args.mes # None => r.MES = args.mes[1]

RECURSIVE SomaNoMapa(_, _)
SomaNoMapa(rows, nome) ==
    IF rows = <<>> THEN 0
    ELSE (IF Head(rows).MUNICIPIO = nome /\ PassaNoMapa(Head(rows))
          THEN Head(rows).TOTAL ELSE 0)
         + SomaNoMapa(Tail(rows), nome)

(* C24: the map of a page is built from the sidebar-filtered records: a    *)
(* circle's value is the sum of the filtered records that pass the map     *)
(* controls, and it is at most the value of the same municipality in the   *)
(* table of the same run.                                                  *)
C24_MapWithinSidebar ==
    etapa = "mapa" =>
        \A i \in DOMAIN mapa.circulos :
            LET nome == mapa.circulos[i].tooltip[1]
                valor == mapa.circulos[i].tooltip[2]
            IN  /\ valor = SomaNoMapa(df_filtrado, nome)
                /\ \A j \in DOMAIN ranking :
                      ranking[j].MUNICIPIO = nome => valor <= ranking[j].TOTAL

C24_Witness ==
    /\ etapa = "mapa"
    /\ args.ano # None
    /\ \E i \in DOMAIN mapa.circulos :
          /\ mapa.circulos[i].tooltip[2]
                < SomaNoMapa(df.rows, mapa.circulos[i].tooltip[1])
          /\ \E j \in DOMAIN ranking :
                ranking[j].MUNICIPIO = mapa.circulos[i].tooltip[1]

(* C25: every script run that completes draws exactly one view: the        *)
(* selection screen with the footer and without the back button iff        *)
(* base_selecionada is None, otherwise the analysis module of the selected *)
(* dataset with the back button and without dataset buttons or footer.     *)
ModuloDaBase ==
    [key \in Bases |->
        CASE key = "MVI" -> "analise_mvi"
          [] key = "Estupro" -> "analise_estupro"
          [] key = "CVP" -> "analise_cvp"
          [] key = "Violencia_Domestica" -> "analise_violencia_domestica"]

C25_ExactlyOneView ==
    \A s \in sessoes :
        pc[s] = "ocioso" =>
            IF base_selecionada[s] = None
            THEN /\ tela[s].visao.botoes
                 /\ tela[s].visao.footer
                 /\ ~tela[s].visao.voltar
                 /\ tela[s].visao.modulo = None
            ELSE /\ tela[s].visao.modulo
                       = <<ModuloDaBase[base_selecionada[s][1]]>>
                 /\ tela[s].visao.voltar
                 /\ ~tela[s].visao.botoes
                 /\ ~tela[s].visao.footer

C25_Witness ==
    /\ pc[1] = "ocioso"
    /\ base_selecionada[1] = <<"CVP">>
    /\ tela[1].visao.modulo = <<"analise_cvp">>
    /\ cache["MVI"] # None

====
